---- MODULE Spec2Model ----
(***************************************************************************)
(* Model of the print agent in src/index.js (lines 1-539): the bounded,    *)
(* deduplicating PrintQueue and its worker, the delivery executor          *)
(* (printTicketSafe / performPrint), the persistent printer connection     *)
(* (getPrinterConnection / cleanupPrinterConnection and the usb hot-plug   *)
(* handlers) and the realtime listener with its watchdog.                  *)
(*                                                                         *)
(* The program is single threaded: every action below is one synchronous   *)
(* run of a handler, from the event that starts or resumes it up to its    *)
(* next await.  A continuation that follows an already settled promise     *)
(* (a microtask) belongs to the same action.                               *)
(***************************************************************************)
EXTENDS Integers, Sequences, FiniteSets, TLC

\* ---------------------------------------------------------------- bounds
\* Number of ledger rows the environment may insert (ids 1..NumJobs, in
\* creation order).
NumJobs == 3
\* PrintQueue.maxLength; QUEUE_MAX_LENGTH = 300 in the source, scaled down.
maxLength == 2
\* Page size of the reconciliation query (.limit(100)), scaled down.
PageLimit == 2
\* Polls of the grace loop of getPrinterConnection (5000 / 200 = 25), scaled.
GracePolls == 2
\* setImmediate callbacks that may be pending while another I/O callback runs.
MaxImmediates == 2
\* processPending queries that may be in flight at once.
MaxFetches == 1
\* Ledger requests (reads or status writes) that may fail in one behaviour.
MaxLedgerFaults == 1
\* Device handles that may be live (referenced or open) at once.
MaxHandles == 3
\* Realtime channels that may be live at once.
MaxChannels == 3
\* Cap of the listenerAttempt counter.
MaxListenerAttempt == 7
\* Pending setTimeout(setupListener, backoff) timers.
MaxTimers == 1

\* ------------------------------------------------------- program constants
MAX_RETRIES == 3
RETRY_BACKOFF_BASE == 1000
LISTENER_BACKOFF_BASE == 1000
concurrency == 1
\* Period of the watchdog interval, in ms (index.js 519).
WatchdogPeriod == 60000

Ids == 1..NumJobs
Null == 0
Handles == 1..MaxHandles
Chans == 1..MaxChannels
Callers == {"deliver", "attach"}

\* A job payload, seen through the four tests of isValidJobPayload.
GoodPayload == [isObject |-> TRUE, invoice |-> TRUE, total |-> TRUE, items |-> TRUE]
BadPayload == [isObject |-> TRUE, invoice |-> TRUE, total |-> FALSE, items |-> TRUE]
Payloads == {GoodPayload, BadPayload}

VARIABLES
   \* ledger (remote table print_jobs) and the two intake paths
   ledger,            \* id -> "none" | "pending" | "printed" | "error"
   payload,           \* id -> payload of the row
   notif,             \* INSERT notifications in flight on the realtime feed
   fetches,           \* processPending queries in flight
   ledgerFaults,      \* ledger requests that failed so far
   \* PrintQueue
   queue,             \* this.queue, as the sequence of job ids
   running,           \* this.running
   immediates,        \* pending setImmediate(() => this.next())
   \* the delivery in flight (printTicketSafe / performPrint)
   cur,               \* id of the job handed to printTicketSafe, or Null
   dpc,               \* "idle" | "acquire" | "printing" | "backoff" | "writing"
   retryCount,        \* performPrint's retryCount
   wstatus,           \* status of the ledger update being awaited
   borrowed,          \* the printer handle the attempt prints on
   attempts,          \* history: attempts (try blocks entered) of this delivery
   backoffs,          \* history: wait(backoff) calls of this delivery
   delays,            \* history: the backoff delays of this delivery, in order
   results,           \* history: outcome of each finished attempt
   \* printer connection
   persistentDevice, persistentPrinter, isDeviceInitializing,
   openHandles,       \* device handles opened and not closed
   gpc,               \* caller -> "idle" | "waiting" | "opening"
   waited,            \* caller -> polls of the grace loop done
   dev,               \* caller -> device whose open() is outstanding, or Null
   joined,            \* history: caller -> its call began during another's open
   plugged,           \* the printer is on the USB bus
   \* realtime listener
   channel,           \* the module variable channel, or Null
   chState,           \* channel -> "none"|"joining"|"joined"|"errored"|"closed"
   registered,        \* channels created and not yet removed from the client
   removing,          \* setupListener calls suspended in removeChannel(old)
   cbRemoving,        \* status callbacks suspended in removeChannel(newChannel)
   timers,            \* pending setTimeout(setupListener, backoff)
   listenerAttempt,
   lastBackoff,       \* history: delay of the last scheduled resubscribe
   \* what the last call of PrintQueue.push logged:
   \* "none" | "accepted" | "full" | "duplicate"
   lastPush,
   \* history: the delay of the last resubscribe that had been scheduled when
   \* the latest subscription was confirmed (0 if none)
   backoffAtJoin

ivars == <<ledger, payload, notif, fetches, ledgerFaults>>
qvars == <<queue, running, immediates>>
dvars == <<dpc, retryCount, wstatus, borrowed, attempts, backoffs, delays, results>>
csvars == <<persistentDevice, persistentPrinter, isDeviceInitializing, openHandles>>
cvars == <<csvars, gpc, waited, dev, joined>>
pvars == <<plugged>>
svars == <<channel, chState, registered, removing, cbRemoving, timers,
           listenerAttempt, lastBackoff>>
hvars == <<lastPush, backoffAtJoin>>
vars == <<ivars, qvars, cur, dvars, cvars, pvars, svars, hvars>>

\* ---------------------------------------------------------------- helpers
RECURSIVE Pow2(_)
Pow2(n) == IF n <= 0 THEN 1 ELSE 2 * Pow2(n - 1)

Min(S) == CHOOSE x \in S : \A y \in S : x <= y

\* Ascending sequence of the at most n smallest elements of S.
RECURSIVE Ascending(_, _)
Ascending(S, n) ==
   IF S = {} \/ n = 0 THEN <<>>
   ELSE <<Min(S)>> \o Ascending(S \ {Min(S)}, n - 1)

Range(f) == {f[x] : x \in DOMAIN f}

\* A shape check that forgets the test of totals.total.
isValidJobPayloadLax(p) ==
   /\ p.isObject
   /\ p.invoice
   /\ p.items

\* index.js 80-86
isValidJobPayload(p) ==
   /\ p.isObject
   /\ p.invoice
   /\ p.total
   /\ p.items


\* ------------------------------------------------------------- PrintQueue
InQueue(q, id) == \E i \in 1..Len(q) : q[i] = id

\* Mutant of IsFull: the bound is tested with > instead of >=.
IsFullOffByOne(q) == Len(q) > maxLength

\* Mutant of IsDuplicate: the duplicate test is missing.
IsDuplicateNever(q, id) == FALSE

\* index.js 364: this.queue.length >= this.maxLength
IsFull(q) == Len(q) >= maxLength

\* index.js 368: this.queue.some(j => j.id === job.id)
IsDuplicate(q, id) == \E i \in 1..Len(q) : q[i] = id

\* The state addToQueue works on: the queue, the pending setImmediate
\* callbacks, the ledger, the value the last push returned and what it logged.
IntakeState == [q |-> queue, imm |-> immediates, led |-> ledger,
                ret |-> FALSE, last |-> lastPush]

\* A push that puts the job at the head of the queue.
pushFront(st, id) ==
   IF IsFull(st.q) THEN [st EXCEPT !.ret = FALSE, !.last = "full"]
   ELSE IF IsDuplicate(st.q, id) THEN [st EXCEPT !.ret = FALSE, !.last = "duplicate"]
   ELSE [st EXCEPT !.q = <<id>> \o @, !.imm = @ + 1,
                   !.ret = TRUE, !.last = "accepted"]

\* A push that schedules no worker step.
pushNoStep(st, id) ==
   IF IsFull(st.q) THEN [st EXCEPT !.ret = FALSE, !.last = "full"]
   ELSE IF IsDuplicate(st.q, id) THEN [st EXCEPT !.ret = FALSE, !.last = "duplicate"]
   ELSE [st EXCEPT !.q = Append(@, id), !.ret = TRUE, !.last = "accepted"]

\* index.js 363-375: PrintQueue.push
push(st, id) ==
   IF IsFull(st.q) THEN [st EXCEPT !.ret = FALSE, !.last = "full"]
   ELSE IF IsDuplicate(st.q, id) THEN [st EXCEPT !.ret = FALSE, !.last = "duplicate"]
   ELSE [st EXCEPT !.q = Append(@, id), !.imm = @ + 1,
                   !.ret = TRUE, !.last = "accepted"]

\* A rejection that leaves the ledger alone.
markNothing(st, id) == st

\* index.js 398-402 and 409-413: update({ status: 'error' }).eq('id', id),
\* not awaited; the request is taken to reach the ledger at once.
markError(st, id) == [st EXCEPT !.led[id] = "error"]

\* index.js 395-415
addToQueue(st, id) ==
   IF ~isValidJobPayload(payload[id]) THEN markError(st, id)
   ELSE IF push(st, id).ret THEN push(st, id)
   ELSE markError(push(st, id), id)

\* data.forEach(job => addToQueue(job.id, job.payload)), index.js 432
RECURSIVE addAll(_, _)
addAll(st, ids) ==
   IF ids = <<>> THEN st ELSE addAll(addToQueue(st, Head(ids)), Tail(ids))

SetIntake(st) ==
   /\ queue' = st.q
   /\ immediates' = st.imm
   /\ ledger' = st.led
   /\ lastPush' = st.last

\* index.js 423-428: rows with status pending, ascending created_at (= id),
\* at most one page.
PendingPage == Ascending({i \in Ids : ledger[i] = "pending"}, PageLimit)

\* ------------------------------------------------------ printer connection
CurCS == [pd |-> persistentDevice, pp |-> persistentPrinter,
          init |-> isDeviceInitializing, open |-> openHandles]

SetCS(cs) ==
   /\ persistentDevice' = cs.pd
   /\ persistentPrinter' = cs.pp
   /\ isDeviceInitializing' = cs.init
   /\ openHandles' = cs.open

\* A cleanup that resets the flag but keeps and leaves open the handles.
cleanupKeepsHandles(cs) == [cs EXCEPT !.init = FALSE]

\* index.js 93-108; close() of a handle that is not open is swallowed.
cleanupPrinterConnection(cs) ==
   [pd |-> Null, pp |-> Null, init |-> FALSE, open |-> cs.open \ {cs.pp, cs.pd}]

InUse == ({persistentDevice, persistentPrinter, borrowed} \cup Range(dev)
          \cup openHandles) \ {Null}
FreshHandle == Min(Handles \ InUse)

\* A retry policy that gives up after the second failure.
ShouldRetryOnce(rc) == rc < 1

\* A retry policy that allows one retry more.
ShouldRetryOneMore(rc) == rc < MAX_RETRIES + 1

\* index.js 324: retryCount < MAX_RETRIES
ShouldRetry(rc) == rc < MAX_RETRIES

\* index.js 325: RETRY_BACKOFF_BASE * Math.pow(2, retryCount)
Backoff(rc) == RETRY_BACKOFF_BASE * Pow2(rc)

\* performPrint is suspended in await getPrinterConnection() (index.js 185).
DSuspend(rc, att) ==
   /\ dpc' = "acquire"
   /\ retryCount' = rc
   /\ attempts' = att
   /\ UNCHANGED <<wstatus, borrowed, backoffs, delays, results>>

\* index.js 186-316: the commands are issued on the handle and performPrint
\* awaits the race of the printing promise and the hardware timeout.
DPrinting(h, rc, att) ==
   /\ dpc' = "printing"
   /\ borrowed' = h
   /\ retryCount' = rc
   /\ attempts' = att
   /\ UNCHANGED <<wstatus, backoffs, delays, results>>

\* index.js 318-329 and 339-346: the catch of performPrint after its
\* cleanupPrinterConnection(): back off and retry, or throw to
\* printTicketSafe, which issues the update to 'error'.
DFailed(rc, att) ==
   /\ results' = Append(results, FALSE)
   /\ borrowed' = Null
   /\ retryCount' = rc
   /\ attempts' = att
   /\ IF ShouldRetry(rc)
      THEN /\ dpc' = "backoff"
           /\ backoffs' = backoffs + 1
           /\ delays' = Append(delays, Backoff(rc))
           /\ wstatus' = wstatus
      ELSE /\ dpc' = "writing"
           /\ wstatus' = "error"
           /\ UNCHANGED <<backoffs, delays>>

\* getPrinterConnection returned the handle h to caller c.
Resolved(c, cs, h, rc, att) ==
   /\ gpc' = [gpc EXCEPT ![c] = "idle"]
   /\ waited' = [waited EXCEPT ![c] = 0]
   /\ dev' = [dev EXCEPT ![c] = Null]
   /\ SetCS(cs)
   /\ IF c = "deliver" THEN DPrinting(h, rc, att) ELSE UNCHANGED dvars

\* getPrinterConnection threw to caller c; cs is the connection after its own
\* catch (index.js 153-157).  The attach handler only logs (index.js 172).
Rejected(c, cs, rc, att) ==
   /\ gpc' = [gpc EXCEPT ![c] = "idle"]
   /\ waited' = [waited EXCEPT ![c] = 0]
   /\ dev' = [dev EXCEPT ![c] = Null]
   /\ IF c = "deliver"
      THEN SetCS(cleanupPrinterConnection(cs)) /\ DFailed(rc, att)
      ELSE SetCS(cs) /\ UNCHANGED dvars

\* index.js 138-142: isDeviceInitializing = true, new escpos.USB and
\* device.open(cb).  The constructor throws at once when the printer is not
\* on the bus (as it is after the event being handled), else the callback of
\* open() is outstanding.
OpenDevice(c, cs, rc, att) ==
   IF ~plugged'
   THEN Rejected(c, cleanupPrinterConnection([cs EXCEPT !.init = FALSE]), rc, att)
   ELSE
      /\ Handles \ InUse # {}
      /\ gpc' = [gpc EXCEPT ![c] = "opening"]
      /\ waited' = [waited EXCEPT ![c] = 0]
      /\ dev' = [dev EXCEPT ![c] = FreshHandle]
      /\ SetCS([cs EXCEPT !.init = TRUE])
      /\ IF c = "deliver" THEN DSuspend(rc, att) ELSE UNCHANGED dvars

\* index.js 122-138: the synchronous start of getPrinterConnection.
getPrinterConnection(c, rc, att) ==
   /\ joined' = [joined EXCEPT ![c] = \E o \in Callers \ {c} : gpc[o] = "opening"]
   /\ IF persistentDevice # Null /\ persistentPrinter # Null
      THEN Resolved(c, CurCS, persistentDevice, rc, att)
      ELSE IF isDeviceInitializing
      THEN /\ gpc' = [gpc EXCEPT ![c] = "waiting"]
           /\ waited' = [waited EXCEPT ![c] = 0]
           /\ UNCHANGED <<dev, csvars>>
           /\ IF c = "deliver" THEN DSuspend(rc, att) ELSE UNCHANGED dvars
      ELSE OpenDevice(c, CurCS, rc, att)

\* index.js 129-138: one wait(200) of the grace loop has elapsed.
Poll(c) ==
   /\ UNCHANGED plugged
   /\ gpc[c] = "waiting"
   /\ UNCHANGED joined
   /\ IF isDeviceInitializing /\ waited[c] + 1 < GracePolls
      THEN /\ waited' = [waited EXCEPT ![c] = @ + 1]
           /\ UNCHANGED <<gpc, dev, csvars, dvars>>
      ELSE IF persistentDevice # Null /\ persistentPrinter # Null
      THEN Resolved(c, CurCS, persistentDevice, retryCount, attempts)
      ELSE OpenDevice(c, CurCS, retryCount, attempts)
   /\ UNCHANGED <<ivars, qvars, cur, svars, hvars>>

\* index.js 113-116 and 144-157: the callback of device.open().
OpenDone(c, ok) ==
   /\ UNCHANGED plugged
   /\ gpc[c] = "opening"
   /\ ok => plugged
   /\ UNCHANGED joined
   /\ IF ok
      THEN Resolved(c, [pd |-> dev[c], pp |-> dev[c], init |-> FALSE,
                        open |-> openHandles \cup {dev[c]}],
                    dev[c], retryCount, attempts)
      ELSE Rejected(c, cleanupPrinterConnection([CurCS EXCEPT !.init = FALSE]),
                    retryCount, attempts)
   /\ UNCHANGED <<ivars, qvars, cur, svars, hvars>>

\* index.js 160-166: usb 'detach' of the managed device.
Detach ==
   /\ plugged
   /\ plugged' = FALSE
   /\ SetCS(cleanupPrinterConnection(CurCS))
   /\ UNCHANGED <<ivars, qvars, cur, dvars, gpc, waited, dev, joined, svars,
                  hvars>>

\* index.js 168-176: usb 'attach' of the managed device.
Attach ==
   /\ ~plugged
   /\ plugged' = TRUE
   /\ gpc["attach"] = "idle"
   /\ getPrinterConnection("attach", retryCount, attempts)
   /\ UNCHANGED <<ivars, qvars, cur, svars, hvars>>


\* ------------------------------------------------------ delivery executor
\* index.js 179-185: performPrint(jobId, data, rc) up to its first await.
performPrint(id, rc) ==
   IF ~isValidJobPayload(payload[id])
   THEN /\ dpc' = "writing"
        /\ wstatus' = "error"
        /\ UNCHANGED <<retryCount, borrowed, attempts, backoffs, delays, results,
                       cvars>>
   ELSE getPrinterConnection("deliver", rc, attempts + 1)

\* A worker step that starts a job without looking at the in-flight count.
nextUnguarded ==
   /\ UNCHANGED plugged
   /\ immediates > 0
   /\ IF queue = <<>>
      THEN /\ immediates' = immediates - 1
           /\ UNCHANGED <<queue, running, cur, dvars, cvars>>
      ELSE /\ immediates' = immediates - 1
           /\ queue' = Tail(queue)
           /\ running' = running + 1
           /\ cur' = Head(queue)
           /\ performPrint(Head(queue), 0)
   /\ UNCHANGED <<ivars, svars, hvars>>

\* index.js 377-383: one setImmediate(() => this.next()) runs.
next ==
   /\ UNCHANGED plugged
   /\ immediates > 0
   /\ IF running >= concurrency \/ queue = <<>>
      THEN /\ immediates' = immediates - 1
           /\ UNCHANGED <<queue, running, cur, dvars, cvars>>
      ELSE /\ immediates' = immediates - 1
           /\ queue' = Tail(queue)
           /\ running' = running + 1
           /\ cur' = Head(queue)
           /\ performPrint(Head(queue), 0)
   /\ UNCHANGED <<ivars, svars, hvars>>

\* index.js 316-329: the race of the printing promise and the hardware timeout
\* is settled: resolved (ok), or rejected by a throw or by the timeout.
PrintDone(ok) ==
   /\ UNCHANGED plugged
   /\ dpc = "printing"
   /\ IF ok
      THEN /\ dpc' = "writing"
           /\ wstatus' = "printed"
           /\ results' = Append(results, TRUE)
           /\ borrowed' = Null
           /\ UNCHANGED <<retryCount, attempts, backoffs, delays, csvars>>
      ELSE /\ SetCS(cleanupPrinterConnection(CurCS))
           /\ DFailed(retryCount, attempts)
   /\ UNCHANGED <<ivars, qvars, cur, gpc, waited, dev, joined, svars, hvars>>

\* index.js 326-327: wait(backoff) is over, performPrint(jobId, data, rc + 1).
BackoffDone ==
   /\ UNCHANGED plugged
   /\ dpc = "backoff"
   /\ performPrint(cur, retryCount + 1)
   /\ UNCHANGED <<ivars, qvars, cur, svars, hvars>>

\* A completion that takes a failed status update for a thrown error and
\* has the catch of printTicketSafe write error.
WriteDoneCatches(ok) ==
   /\ UNCHANGED plugged
   /\ dpc = "writing"
   /\ immediates < MaxImmediates
   /\ IF ok
      THEN /\ ledger' = [ledger EXCEPT ![cur] = wstatus]
           /\ ledgerFaults' = ledgerFaults
      ELSE /\ ledgerFaults < MaxLedgerFaults
           /\ ledgerFaults' = ledgerFaults + 1
           /\ ledger' = [ledger EXCEPT ![cur] = "error"]
   /\ running' = running - 1
   /\ immediates' = immediates + 1
   /\ cur' = Null
   /\ dpc' = "idle"
   /\ retryCount' = 0
   /\ attempts' = 0
   /\ backoffs' = 0
   /\ delays' = <<>>
   /\ results' = <<>>
   /\ UNCHANGED <<payload, notif, fetches, queue, wstatus, borrowed, cvars, svars,
                  hvars>>

\* A completion whose failed status update skips the finally of next(): the
\* in-flight count stays and no worker step is scheduled.
WriteDoneBlocks(ok) ==
   /\ UNCHANGED plugged
   /\ dpc = "writing"
   /\ immediates < MaxImmediates
   /\ IF ok
      THEN /\ ledger' = [ledger EXCEPT ![cur] = wstatus]
           /\ ledgerFaults' = ledgerFaults
           /\ running' = running - 1
           /\ immediates' = immediates + 1
      ELSE /\ ledgerFaults < MaxLedgerFaults
           /\ ledgerFaults' = ledgerFaults + 1
           /\ ledger' = ledger
           /\ running' = running
           /\ immediates' = immediates
   /\ cur' = Null
   /\ dpc' = "idle"
   /\ retryCount' = 0
   /\ attempts' = 0
   /\ backoffs' = 0
   /\ delays' = <<>>
   /\ results' = <<>>
   /\ UNCHANGED <<payload, notif, fetches, queue, wstatus, borrowed, cvars, svars,
                  hvars>>

\* index.js 338 / 341-346 and 386-389: the awaited status update is answered
\* (ok: applied; otherwise the request failed and the row is unchanged), then
\* the finally of next(): running-- and setImmediate(() => this.next()).
WriteDone(ok) ==
   /\ UNCHANGED plugged
   /\ dpc = "writing"
   /\ immediates < MaxImmediates
   /\ IF ok
      THEN /\ ledger' = [ledger EXCEPT ![cur] = wstatus]
           /\ ledgerFaults' = ledgerFaults
      ELSE /\ ledgerFaults < MaxLedgerFaults
           /\ ledgerFaults' = ledgerFaults + 1
           /\ ledger' = ledger
   /\ running' = running - 1
   /\ immediates' = immediates + 1
   /\ cur' = Null
   /\ dpc' = "idle"
   /\ retryCount' = 0
   /\ attempts' = 0
   /\ backoffs' = 0
   /\ delays' = <<>>
   /\ results' = <<>>
   /\ UNCHANGED <<payload, notif, fetches, queue, wstatus, borrowed, cvars, svars,
                  hvars>>

\* ------------------------------------------------------------------ intake
\* The environment inserts the next row, pending; the realtime feed carries
\* the INSERT to the agent if a channel is joined and the event is not lost.
InsertRow(p, n) ==
   /\ UNCHANGED plugged
   /\ \E i \in Ids : ledger[i] = "none"
   /\ LET id == Min({i \in Ids : ledger[i] = "none"}) IN
      /\ ledger' = [ledger EXCEPT ![id] = "pending"]
      /\ payload' = [payload EXCEPT ![id] = p]
      /\ notif' = IF n /\ (\E c \in registered : chState[c] = "joined")
                  THEN notif \cup {id} ELSE notif
   /\ UNCHANGED <<fetches, ledgerFaults, qvars, cur, dvars, cvars, svars, hvars>>

\* index.js 445-447: the postgres_changes handler; payload.new is the row as
\* inserted, so its status is pending.
Notify(id) ==
   /\ UNCHANGED plugged
   /\ id \in notif
   /\ immediates < MaxImmediates
   /\ notif' = notif \ {id}
   /\ SetIntake(addToQueue(IntakeState, id))
   /\ UNCHANGED <<payload, fetches, ledgerFaults, running, cur, dvars, cvars, svars,
                  backoffAtJoin>>

\* index.js 421-437: the select of processPending is answered.
processPending(ok) ==
   /\ UNCHANGED plugged
   /\ fetches > 0
   /\ immediates < MaxImmediates
   /\ fetches' = fetches - 1
   /\ IF ok
      THEN SetIntake(addAll(IntakeState, PendingPage)) /\ ledgerFaults' = ledgerFaults
      ELSE /\ ledgerFaults < MaxLedgerFaults
           /\ ledgerFaults' = ledgerFaults + 1
           /\ UNCHANGED <<queue, immediates, ledger, lastPush>>
   /\ UNCHANGED <<payload, notif, running, cur, dvars, cvars, svars, backoffAtJoin>>

\* index.js 363-375: PrintQueue.push called with the job of a pending row as
\* it is in the ledger.  The queue takes any payload; in index.js addToQueue
\* is its only caller, so that this call stands for a caller that does not
\* validate, and lets performPrint meet every payload.
DirectPush(id) ==
   /\ UNCHANGED plugged
   /\ ledger[id] = "pending"
   /\ immediates < MaxImmediates
   /\ SetIntake(push(IntakeState, id))
   /\ UNCHANGED <<payload, notif, fetches, ledgerFaults, running, cur, dvars, cvars,
                  svars, backoffAtJoin>>

\* ------------------------------------------------------- realtime listener
ChansInUse == (registered \cup removing \cup cbRemoving \cup {channel}) \ {Null}
FreshChan == Min(Chans \ ChansInUse)

\* index.js 464-485: createChannel(), subscribe(callback), channel = newChannel.
CreateChannel(reg) ==
   /\ Chans \ ChansInUse # {}
   /\ chState' = [chState EXCEPT ![FreshChan] = "joining"]
   /\ registered' = reg \cup {FreshChan}
   /\ channel' = FreshChan

\* index.js 450-462: setupListener up to its first await, or to its end.
setupListener ==
   IF channel # Null /\ chState[channel] \in {"joined", "joining"}
   THEN UNCHANGED <<channel, chState, registered, removing>>
   ELSE IF channel # Null
   THEN /\ removing' = removing \cup {channel}
        /\ channel' = Null
        /\ UNCHANGED <<chState, registered>>
   ELSE CreateChannel(registered) /\ UNCHANGED removing

\* index.js 457-485: removeChannel(oldChannel) is settled and setupListener
\* goes on to create the new channel.
SetupResume(old) ==
   /\ UNCHANGED plugged
   /\ old \in removing
   /\ removing' = removing \ {old}
   /\ CreateChannel(registered \ {old})
   /\ UNCHANGED <<cbRemoving, timers, listenerAttempt, lastBackoff>>
   /\ UNCHANGED <<ivars, qvars, cur, dvars, cvars, hvars>>

\* A confirmation that leaves the retry counter as it is.
SubscribedNoReset(c) ==
   /\ UNCHANGED plugged
   /\ c \in registered
   /\ chState[c] = "joining"
   /\ fetches < MaxFetches
   /\ chState' = [chState EXCEPT ![c] = "joined"]
   /\ listenerAttempt' = listenerAttempt
   /\ channel' = c
   /\ fetches' = fetches + 1
   /\ UNCHANGED <<registered, removing, cbRemoving, timers, lastBackoff>>
   /\ UNCHANGED <<ledger, payload, notif, ledgerFaults, qvars, cur, dvars, cvars,
                  lastPush>>
   /\ backoffAtJoin' = lastBackoff

\* index.js 466-470: the callback of subscribe gets SUBSCRIBED.
Subscribed(c) ==
   /\ UNCHANGED plugged
   /\ c \in registered
   /\ chState[c] = "joining"
   /\ fetches < MaxFetches
   /\ chState' = [chState EXCEPT ![c] = "joined"]
   /\ listenerAttempt' = 0
   /\ channel' = c
   /\ fetches' = fetches + 1
   /\ UNCHANGED <<registered, removing, cbRemoving, timers, lastBackoff>>
   /\ UNCHANGED <<ledger, payload, notif, ledgerFaults, qvars, cur, dvars, cvars,
                  lastPush>>
   /\ backoffAtJoin' = lastBackoff

\* index.js 471-474: the callback gets CLOSED (st = "closed") or
\* CHANNEL_ERROR / TIMED_OUT (st = "errored") and awaits removeChannel.
ChannelDown(c, st) ==
   /\ UNCHANGED plugged
   /\ c \in registered
   /\ c \notin cbRemoving
   /\ chState[c] \in {"joining", "joined"}
   /\ chState' = [chState EXCEPT ![c] = st]
   /\ cbRemoving' = cbRemoving \cup {c}
   /\ UNCHANGED <<channel, registered, removing, timers, listenerAttempt, lastBackoff>>
   /\ UNCHANGED <<ivars, qvars, cur, dvars, cvars, hvars>>

\* A resubscribe delay that does not grow.
ListenerBackoffFlat(n) == LISTENER_BACKOFF_BASE

\* index.js 478: LISTENER_BACKOFF_BASE * 2 ^ max(0, listenerAttempt - 1)
ListenerBackoff(n) == LISTENER_BACKOFF_BASE * Pow2(IF n - 1 > 0 THEN n - 1 ELSE 0)

\* index.js 474-479: removeChannel(newChannel) is settled in the callback.
CallbackResume(c) ==
   /\ UNCHANGED plugged
   /\ c \in cbRemoving
   /\ listenerAttempt < MaxListenerAttempt
   /\ timers < MaxTimers
   /\ cbRemoving' = cbRemoving \ {c}
   /\ registered' = registered \ {c}
   /\ channel' = IF channel = c THEN Null ELSE channel
   /\ listenerAttempt' = listenerAttempt + 1
   /\ lastBackoff' = ListenerBackoff(listenerAttempt + 1)
   /\ timers' = timers + 1
   /\ UNCHANGED <<chState, removing>>
   /\ UNCHANGED <<ivars, qvars, cur, dvars, cvars, hvars>>

\* index.js 479: setTimeout(setupListener, backoff) fires.
TimerFire ==
   /\ UNCHANGED plugged
   /\ timers > 0
   /\ timers' = timers - 1
   /\ setupListener
   /\ UNCHANGED <<cbRemoving, listenerAttempt, lastBackoff>>
   /\ UNCHANGED <<ivars, qvars, cur, dvars, cvars, hvars>>

\* index.js 505-506
shouldRestart == channel = Null \/ chState[channel] \in {"closed", "errored"}

\* A watchdog that restarts the listener but forgets the pull.
WatchdogNoPull ==
   /\ UNCHANGED plugged
   /\ fetches < MaxFetches
   /\ IF shouldRestart
      THEN setupListener
      ELSE UNCHANGED <<channel, chState, registered, removing>>
   /\ UNCHANGED <<cbRemoving, timers, listenerAttempt, lastBackoff>>
   /\ UNCHANGED <<ivars, qvars, cur, dvars, cvars, hvars>>

\* index.js 503-519: one tick of the watchdog interval.
Watchdog ==
   /\ UNCHANGED plugged
   /\ fetches < MaxFetches
   /\ IF shouldRestart
      THEN setupListener
      ELSE UNCHANGED <<channel, chState, registered, removing>>
   /\ fetches' = fetches + 1
   /\ UNCHANGED <<cbRemoving, timers, listenerAttempt, lastBackoff>>
   /\ UNCHANGED <<ledger, payload, notif, ledgerFaults, qvars, cur, dvars, cvars,
                  hvars>>

\* ------------------------------------------------------------ specification
\* The state after the module body has run (index.js 89-91, 393, 418-419 and
\* 495-501): setupListener() has created the first channel and the first
\* processPending() query is in flight.  Rows inserted while the agent was
\* down are pending.
Init ==
   /\ \E n \in 0..NumJobs :
         ledger = [i \in Ids |-> IF i <= n THEN "pending" ELSE "none"]
   /\ payload = [i \in Ids |-> GoodPayload]
   /\ notif = {}
   /\ fetches = 1
   /\ ledgerFaults = 0
   /\ queue = <<>>
   /\ running = 0
   /\ immediates = 0
   /\ cur = Null
   /\ dpc = "idle"
   /\ retryCount = 0
   /\ wstatus = "printed"
   /\ borrowed = Null
   /\ attempts = 0
   /\ backoffs = 0
   /\ delays = <<>>
   /\ results = <<>>
   /\ persistentDevice = Null
   /\ persistentPrinter = Null
   /\ isDeviceInitializing = FALSE
   /\ openHandles = {}
   /\ gpc = [c \in Callers |-> "idle"]
   /\ waited = [c \in Callers |-> 0]
   /\ dev = [c \in Callers |-> Null]
   /\ joined = [c \in Callers |-> FALSE]
   /\ channel = 1
   /\ chState = [c \in Chans |-> IF c = 1 THEN "joining" ELSE "none"]
   /\ registered = {1}
   /\ removing = {}
   /\ cbRemoving = {}
   /\ timers = 0
   /\ listenerAttempt = 0
   /\ lastBackoff = 0
   /\ lastPush = "none"
   /\ backoffAtJoin = 0
   /\ plugged = TRUE

\* Intake, queue and delivery with a printer that stays on the bus and works,
\* a channel that stays up and a ledger that answers.
NextCore ==
   \/ \E p \in Payloads, n \in BOOLEAN : InsertRow(p, n)
   \/ \E id \in Ids : Notify(id)
   \/ processPending(TRUE)
   \/ next
   \/ OpenDone("deliver", TRUE)
   \/ PrintDone(TRUE)
   \/ WriteDone(TRUE)
   \/ \E c \in Chans : Subscribed(c)
   \/ Watchdog

\* Open and print attempts that fail, and the retry they cause.
NextDeviceFaults ==
   \/ OpenDone("deliver", FALSE)
   \/ PrintDone(FALSE)
   \/ BackoffDone

\* Ledger requests that fail.
NextLedgerFaults ==
   \/ processPending(FALSE)
   \/ WriteDone(FALSE)

\* Hot-plug events and the callers of getPrinterConnection.
NextPlug ==
   \/ Detach
   \/ Attach
   \/ \E c \in Callers : Poll(c)
   \/ \E ok \in BOOLEAN : OpenDone("attach", ok)

\* Failures of the realtime channel and the resubscribe machinery.
NextListener ==
   \/ \E c \in Chans, st \in {"closed", "errored"} : ChannelDown(c, st)
   \/ \E c \in Chans : CallbackResume(c)
   \/ \E c \in Chans : SetupResume(c)
   \/ TimerFire

Next == NextCore \/ NextDeviceFaults \/ NextLedgerFaults \/ NextPlug \/ NextListener

Spec == Init /\ [][Next]_vars

\* The agent with a working printer, channel and ledger.
SpecCore == Init /\ [][NextCore]_vars

\* The agent with a printer whose open and print attempts may fail.
SpecAgent == Init /\ [][NextCore \/ NextDeviceFaults]_vars


\* The startup sequence alone (index.js 495-501 and 465-470): the first pull,
\* the confirmation of the subscription and its pull, and the worker, with a
\* working printer and ledger and no further event.
SpecStartup ==
   /\ Init
   /\ [][\/ processPending(TRUE)
         \/ next
         \/ OpenDone("deliver", TRUE)
         \/ PrintDone(TRUE)
         \/ WriteDone(TRUE)
         \/ \E c \in Chans : Subscribed(c)]_vars

\* The agent working through the rows that were pending at startup, with a
\* printer that may be unplugged and plugged in again at any time.
NextBacklog ==
   \/ processPending(TRUE)
   \/ next
   \/ \E ok \in BOOLEAN : PrintDone(ok)
   \/ BackoffDone
   \/ WriteDone(TRUE)

SpecPlug ==
   /\ Init
   /\ [][\/ NextBacklog
         \/ \E c \in Callers, ok \in BOOLEAN : OpenDone(c, ok)
         \/ \E c \in Callers : Poll(c)
         \/ Detach
         \/ Attach]_vars

\* The listener and its watchdog, with a channel that may go down.
SpecListener ==
   /\ Init
   /\ [][\/ NextListener
         \/ \E c \in Chans : Subscribed(c)
         \/ Watchdog
         \/ processPending(TRUE)]_vars

\* What the scheduler of the process guarantees: a pending setImmediate
\* callback runs, the interval of the watchdog keeps firing, a query that is
\* in flight is answered, and the delivery in flight goes on: the printer
\* answers every open and every print (with success or failure), a backoff
\* delay elapses and the ledger answers the status update.
DeliveryStep ==
   \/ \E ok \in BOOLEAN : OpenDone("deliver", ok)
   \/ \E ok \in BOOLEAN : PrintDone(ok)
   \/ BackoffDone
   \/ WriteDone(TRUE)

Fairness ==
   /\ WF_vars(next)
   /\ WF_vars(Watchdog)
   /\ WF_vars(processPending(TRUE))
   /\ WF_vars(DeliveryStep)

\* The agent when no notification is ever delivered: rows are pending at
\* startup or inserted later, and only the pulls can find them.
NextLost ==
   \/ InsertRow(GoodPayload, FALSE)
   \/ processPending(TRUE)
   \/ next
   \/ DeliveryStep
   \/ Watchdog

SpecLost == Init /\ [][NextLost]_vars

LiveSpec == SpecLost /\ Fairness

\* The queue and the delivery executor offered rows of any payload, through
\* addToQueue (the pull) and directly.
SpecDirect ==
   /\ Init
   /\ [][\/ \E p \in Payloads : InsertRow(p, FALSE)
         \/ processPending(TRUE)
         \/ \E id \in Ids : DirectPush(id)
         \/ next
         \/ DeliveryStep
         \/ Watchdog]_vars

\* The agent with a working printer and a ledger whose status updates may
\* fail; no notification is delivered.
SpecWriteFault ==
   /\ Init
   /\ [][\/ InsertRow(GoodPayload, FALSE)
         \/ processPending(TRUE)
         \/ next
         \/ OpenDone("deliver", TRUE)
         \/ PrintDone(TRUE)
         \/ \E ok \in BOOLEAN : WriteDone(ok)
         \/ Watchdog]_vars

\* ------------------------------------------------------------------ claims
Terminal == {"printed", "error"}

\* C1: for every job id the core writes one terminal status: a row that has
\* a terminal status in the ledger is never given another one by the core
\* (never both error and printed for the same id).
C1_TerminalWrittenOnce ==
   [][\A id \in Ids : ledger[id] \in Terminal => ledger'[id] = ledger[id]]_vars

\* C2: when the realtime feed pushes a row that a reconciliation pull already
\* enqueued, and that is still waiting in the queue or in flight, the second
\* addJob call changes neither the queue nor the ledger.
C2_SecondAddJobIsNoOp ==
   [][\A id \in Ids :
         (Notify(id) /\ (InQueue(queue, id) \/ cur = id))
            => (queue' = queue /\ ledger' = ledger)]_vars

\* C3: the queue never holds two entries with the same id, and a push of an
\* id that is in the queue returns false and leaves the queue unchanged.
C3_NoDuplicateIds ==
   /\ \A i, j \in 1..Len(queue) : queue[i] = queue[j] => i = j
   /\ \A id \in Ids :
         InQueue(queue, id) =>
            /\ ~push(IntakeState, id).ret
            /\ push(IntakeState, id).q = queue

\* A push of an id that was in the queue has been rejected as a duplicate.
C3_Witness ==
   /\ lastPush = "duplicate"
   /\ Len(queue) < maxLength
   /\ \E id \in Ids : InQueue(queue, id) /\ ledger[id] = "error"

\* C4: a push made while the queue length is at or above maxLength returns
\* false, does not grow the buffer and schedules no worker step, and the
\* queue length never exceeds maxLength.
C4_QueueBounded ==
   /\ Len(queue) <= maxLength
   /\ Len(queue) >= maxLength =>
         \A id \in Ids :
            /\ ~push(IntakeState, id).ret
            /\ push(IntakeState, id).q = queue
            /\ push(IntakeState, id).imm = immediates

\* A push of an id that is not in the queue has been rejected by a full
\* queue.
C4_Witness ==
   /\ lastPush = "full"
   /\ Len(queue) = maxLength
   /\ \E id \in Ids : ~InQueue(queue, id) /\ ledger[id] = "error"
                      /\ isValidJobPayload(payload[id])

\* C8: with one pending row at startup, a valid payload and a working
\* printer, the startup sequence prints the row once: the worker does not
\* take row 1 again once it is printed.
C8_StartupPrintsOnce ==
   [][(ledger[1] # "none" /\ \A j \in Ids \ {1} : ledger[j] = "none")
         => (cur' = 1 /\ cur # 1 => ledger[1] # "printed")]_vars


\* C5: a caller whose getPrinterConnection call began while another caller's
\* device open was in progress issues no physical open call of its own.
C5_NoSecondOpen == \A c \in Callers : joined[c] => gpc[c] # "opening"

Increasing(d) == \A i \in 1..(Len(d) - 1) : d[i] < d[i + 1]

\* C6: with MAX_RETRIES = 3 and a device that fails on every attempt,
\* performPrint has made exactly 3 attempts, with strictly increasing
\* backoff delays, when it throws the last error to printTicketSafe.
C6_ThreeAttempts ==
   (dpc = "writing" /\ wstatus = "error" /\ attempts > 0)
      => (attempts = 3 /\ Increasing(delays))

\* C7: a delivery is not given up after 1 or 2 failed attempts; when its
\* first 2 attempts failed and its 3rd succeeded it has made exactly 3
\* attempts and 2 backoff delays and awaits the update to printed, not to
\* error; when that update is answered the row is printed.
C7_ThirdAttemptPrints ==
   [][/\ results' \in {<<FALSE>>, <<FALSE, FALSE>>} => dpc' # "writing"
      /\ results' = <<FALSE, FALSE, TRUE>> =>
            /\ dpc' = "writing"
            /\ wstatus' = "printed"
            /\ attempts' = 3
            /\ backoffs' = 2
            /\ Len(delays') = 2
      /\ (results = <<FALSE, FALSE, TRUE>> /\ results' # results) =>
            ledger'[cur] = "printed"]_vars

\* A delivery that failed twice and then printed has been written back.
C7_Witness ==
   /\ results = <<FALSE, FALSE, TRUE>>
   /\ dpc = "writing"
   /\ ledger[cur] = "pending"

\* C9: every pending row eventually gets a terminal status, whether or not
\* its notification is ever delivered.
C9_NoRowStranded ==
   \A id \in Ids : (ledger[id] = "pending") ~> (ledger[id] \in Terminal)

\* A row has been printed although the channel never joined, so that no
\* notification was ever sent for any row.
C9_Witness ==
   /\ \A c \in Chans : chState[c] # "joined"
   /\ notif = {}
   /\ \E id \in Ids : ledger[id] = "printed"

\* C10: at no time are two realtime channels registered at once, even when
\* the channels whose release is under way are left aside.
C10_OneSubscription ==
   Cardinality(registered \ (removing \cup cbRemoving)) <= 1


\* C11: a watchdog tick on which the current channel is not joined (there is
\* none, or it is joining, closed or errored) starts a subscribe attempt: it
\* creates a channel, or begins the release of the old one that precedes the
\* creation.
C11_WatchdogResubscribes ==
   [][(Watchdog /\ ~(channel # Null /\ chState[channel] = "joined"))
         => (registered' # registered \/ removing' # removing)]_vars

\* C12: while failures follow one another with no confirmation in between,
\* the resubscribe scheduled by a failure has the delay base * 2^(counter-1),
\* strictly larger than the delay of the failure before; and the step in
\* which a channel becomes joined resets the counter and starts a pull.
C12_BackoffGrowsThenPull ==
   [][/\ listenerAttempt' > listenerAttempt =>
            /\ timers' = timers + 1
            /\ lastBackoff' = LISTENER_BACKOFF_BASE * Pow2(listenerAttempt' - 1)
            /\ listenerAttempt > 0 => lastBackoff' > lastBackoff
      /\ (\E c \in Chans : chState[c] # "joined" /\ chState'[c] = "joined") =>
            /\ listenerAttempt' = 0
            /\ fetches' = fetches + 1]_vars

\* Two failures in a row were followed by a confirmation whose pull is in
\* flight.
C12_Witness ==
   /\ lastBackoff = 2 * LISTENER_BACKOFF_BASE
   /\ listenerAttempt = 0
   /\ fetches > 0
   /\ channel # Null
   /\ chState[channel] = "joined"

\* C16: the delay of a scheduled resubscribe never exceeds a ceiling, here
\* the period of the watchdog, however many failures follow one another.
C16_DelayHasCeiling == lastBackoff <= WatchdogPeriod


\* C13: a detach while the connection is ready leaves both handles null, the
\* flag reset and the old handle closed; and while the connection is absent
\* a delivery gets a handle only from a physical open of its own, which is
\* open when it is handed out.
C13_DetachThenFreshOpen ==
   [][/\ (plugged /\ ~plugged' /\ persistentDevice # Null /\ persistentPrinter # Null) =>
            /\ persistentDevice' = Null
            /\ persistentPrinter' = Null
            /\ ~isDeviceInitializing'
            /\ persistentDevice \notin openHandles'
      /\ (persistentDevice = Null /\ borrowed = Null /\ borrowed' # Null) =>
            /\ gpc["deliver"] = "opening"
            /\ borrowed' = dev["deliver"]
            /\ borrowed' \in openHandles']_vars

\* The printer was unplugged while a delivery held the ready connection: the
\* connection is absent, the old handle is closed, and the acquire of the
\* attach handler is doing a physical open.
C13_Witness ==
   /\ dpc = "printing"
   /\ borrowed # Null
   /\ borrowed \notin openHandles
   /\ persistentDevice = Null
   /\ gpc["attach"] = "opening"
   /\ dev["attach"] # borrowed

\* C17: every device handle that is open is the one the connection manager
\* references, so at most one is open.
C17_OneOpenConnection ==
   /\ openHandles \subseteq {persistentDevice}
   /\ Cardinality(openHandles) <= 1

\* C18: an attempt that is in flight while the printer is off the bus (it
\* was detached after the attempt got its handle) is not reported as a
\* successful print.
C18_DetachedAttemptFails ==
   [][(dpc = "printing" /\ ~plugged)
         => ~(dpc' = "writing" /\ wstatus' = "printed")]_vars

\* C20: the step in which an attempt fails leaves the connection absent
\* (both handles null, flag reset, no handle kept by the delivery) before
\* the backoff starts; a retry that finds the connection absent and the
\* printer present starts a physical open on a new handle, and the handle a
\* retry prints on is open.
C20_TeardownBeforeRetry ==
   [][/\ (Len(results') > Len(results) /\ ~results'[Len(results')]) =>
            /\ persistentDevice' = Null
            /\ persistentPrinter' = Null
            /\ ~isDeviceInitializing'
            /\ borrowed' = Null
      /\ (retryCount' = retryCount + 1 /\ persistentDevice = Null
            /\ ~isDeviceInitializing /\ plugged) =>
            /\ gpc'["deliver"] = "opening"
            /\ dev'["deliver"] \notin openHandles
      /\ (retryCount' > 0 /\ borrowed = Null /\ borrowed' # Null) =>
            borrowed' \in openHandles']_vars

\* A retry prints on an open handle after an attempt that failed while
\* printing.
C20_Witness ==
   /\ dpc = "printing"
   /\ retryCount > 0
   /\ results # <<>>
   /\ borrowed \in openHandles
   /\ borrowed = persistentDevice


\* C14: addToQueue answers a job whose payload fails the shape check by
\* marking it error and nothing else (the queue is unchanged and no worker
\* step is scheduled); a delivery handed such a job awaits the update to
\* error at once, with no attempt, no backoff, no acquire and the connection
\* untouched, and its next step is its completion with the row in error.
C14_InvalidPayloadIsTerminal ==
   [][/\ \A id \in Ids :
            payload[id] = BadPayload =>
               addToQueue(IntakeState, id) = [IntakeState EXCEPT !.led[id] = "error"]
      /\ \A id \in Ids :
            (cur' = id /\ cur # id /\ payload[id] = BadPayload) =>
               /\ dpc' = "writing"
               /\ wstatus' = "error"
               /\ attempts' = 0
               /\ backoffs' = 0
               /\ UNCHANGED <<csvars, gpc, dev, borrowed>>
      /\ (cur # Null /\ payload[cur] = BadPayload /\ dpc' # dpc /\ cur' = cur) => FALSE
      /\ (cur # Null /\ payload[cur] = BadPayload /\ cur' # cur) =>
            ledger'[cur] = "error"]_vars

\* A delivery was handed a job with an invalid payload and awaits the update
\* to error without having made an attempt, and another row with an invalid
\* payload was marked error by addToQueue without being enqueued.
C14_Witness ==
   /\ cur # Null
   /\ payload[cur] = BadPayload
   /\ dpc = "writing"
   /\ wstatus = "error"
   /\ attempts = 0
   /\ \E id \in Ids \ {cur} :
         /\ payload[id] = BadPayload
         /\ ledger[id] = "error"
         /\ ~InQueue(queue, id)


\* C15: once a job has been printed, a delivery is started only by a step
\* that is not a pending setImmediate callback: the worker waits for a pause
\* to elapse between the completion of a job and the start of the next.
C15_PauseBetweenJobs ==
   [][(cur = Null /\ cur' # Null /\ \E id \in Ids : ledger[id] = "printed")
         => immediates' >= immediates]_vars

C21_PullAtStartupSubscribedAndTick ==
   /\ fetches = 1
   /\ [][/\ Watchdog => fetches' = fetches + 1
         /\ (\E c \in Chans : chState[c] = "joining" /\ chState'[c] = "joined")
               => fetches' = fetches + 1]_vars

\* A tick restarted the listener (the release of the old channel is under way
\* and no resubscribe timer was ever set) and its pull is in flight.
C21_Witness ==
   /\ removing # {}
   /\ lastBackoff = 0
   /\ timers = 0
   /\ fetches > 0

\* C22: in every reachable state the number of jobs in flight is between 0
\* and concurrency, however many worker steps pushes and completions have
\* scheduled.
C22_RunningWithinConcurrency == running >= 0 /\ running <= concurrency

\* A job is in flight and another one waits: the worker step its push had
\* scheduled has run and returned without starting it.
C22_Witness ==
   /\ running = concurrency
   /\ queue # <<>>
   /\ immediates = 0

\* C23: jobs are handed to the delivery executor in the order their pushes
\* were accepted: a push appends behind the jobs already waiting, the worker
\* takes the head and nothing else changes the queue; the rows one pull
\* enqueues go in ascending creation order.
C23_FifoHandOff ==
   [][/\ \/ queue' = queue
         \/ /\ queue # <<>>
            /\ queue' = Tail(queue)
            /\ cur' = Head(queue)
         \/ /\ Len(queue') > Len(queue)
            /\ SubSeq(queue', 1, Len(queue)) = queue
      /\ (fetches' < fetches /\ Len(queue') > Len(queue))
            => \A i, j \in (Len(queue) + 1)..Len(queue') :
                  i < j => queue'[i] < queue'[j]]_vars

\* Row 1 is being printed while row 2 of the same pull and row 3, pushed
\* after it, wait in that order.
C23_Witness ==
   /\ cur = 1
   /\ dpc = "printing"
   /\ queue = <<2, 3>>

\* C24: when push rejects a job (queue full or duplicate id) addToQueue
\* writes status error for that id to the ledger, and when push accepts it
\* addToQueue writes nothing to the ledger.
C24_RejectedPushWritesError ==
   [][\A id \in Ids :
         (Notify(id) /\ isValidJobPayload(payload[id]))
            => IF IsFull(queue) \/ IsDuplicate(queue, id)
               THEN /\ queue' = queue
                    /\ ledger' = [ledger EXCEPT ![id] = "error"]
               ELSE /\ queue' = Append(queue, id)
                    /\ ledger' = ledger]_vars

\* A rejected job of valid payload carries error while an accepted job waits
\* in the queue, its row still pending.
C24_Witness ==
   /\ lastPush \in {"full", "duplicate"}
   /\ \E id \in Ids : ledger[id] = "error" /\ isValidJobPayload(payload[id])
   /\ \E id \in Ids : InQueue(queue, id) /\ ledger[id] = "pending"

\* C25: a failed status update of a job does not block the queue: when
\* printTicketSafe is over, with the update applied or failed, the in-flight
\* count is decremented and a worker step is scheduled, so that the next
\* queued job is started.
C25_FailedWriteFreesWorker ==
   [][(dpc = "writing" /\ dpc' # "writing") =>
         /\ running' = running - 1
         /\ immediates' = immediates + 1
         /\ cur' = Null]_vars

\* Row 2 is in flight after the status update of row 1 failed: row 1 is
\* pending, neither queued nor in flight.
C25_Witness ==
   /\ ledgerFaults = 1
   /\ cur = 2
   /\ running = 1
   /\ ledger[1] = "pending"
   /\ ~InQueue(queue, 1)

\* C26: the confirmation of a subscription resets the retry counter to 0, so
\* that the first failure counted after it schedules the resubscribe with the
\* base delay, however many failures came before the confirmation.
C26_ConfirmationResetsBackoff ==
   [][/\ (\E c \in Chans : chState[c] = "joining" /\ chState'[c] = "joined")
            => listenerAttempt' = 0
      /\ (listenerAttempt = 0 /\ listenerAttempt' # 0)
            => /\ listenerAttempt' = 1
               /\ lastBackoff' = LISTENER_BACKOFF_BASE]_vars

\* Two failures in a row had doubled the delay when the subscription was
\* confirmed, and the failure after the confirmation has scheduled the
\* resubscribe with the base delay.
C26_Witness ==
   /\ backoffAtJoin >= 2 * LISTENER_BACKOFF_BASE
   /\ listenerAttempt = 1
   /\ lastBackoff = LISTENER_BACKOFF_BASE
   /\ timers = 1

\* C27: cleanupPrinterConnection is idempotent and never raises: called in
\* any connection state (Absent, Opening, Ready, whichever of the handles
\* have a close() that throws) it leaves no handle referenced and the
\* initializing flag false, and a second call changes nothing.
C27_TeardownIdempotent ==
   \A op \in SUBSET openHandles :
      LET cs == [CurCS EXCEPT !.open = op]
          once == cleanupPrinterConnection(cs)
      IN /\ once.pd = Null
         /\ once.pp = Null
         /\ ~once.init
         /\ once.open \subseteq cs.open
         /\ cleanupPrinterConnection(once) = once

\* The printer is unplugged and a print attempt has failed: the teardown has
\* run for the detach and for the failure, and the connection is Absent.
C27_Witness ==
   /\ ~plugged
   /\ dpc = "backoff"
   /\ persistentDevice = Null
   /\ persistentPrinter = Null
   /\ ~isDeviceInitializing

\* C28: every call of performPrint terminates, with success or with the last
\* error thrown, after at most MAX_RETRIES + 1 attempts, when every open of
\* the device and every race of a print against the hardware timeout is
\* settled.
C28_DeliveryTerminates ==
   /\ [][attempts' <= MAX_RETRIES + 1]_vars
   /\ (dpc \in {"acquire", "printing", "backoff"}) ~> (dpc = "writing")

\* A delivery has ended with the error of its last attempt, the one after
\* MAX_RETRIES retries.
C28_Witness ==
   /\ dpc = "writing"
   /\ wstatus = "error"
   /\ attempts = MAX_RETRIES + 1
   /\ retryCount = MAX_RETRIES

\* C29: an open of the device that was in progress when a teardown ran (its
\* caller still awaits it and the teardown has reset the initializing flag)
\* never installs its handle as the Ready connection.
C29_StaleOpenNeverInstalls ==
   [][\A c \in Callers :
         (gpc[c] = "opening" /\ ~isDeviceInitializing /\ gpc'[c] # "opening")
            => persistentDevice' # dev[c]]_vars

\* C30: the queue never stalls: whenever the queue is not empty and fewer
\* than concurrency jobs are in flight a worker step is pending, and every
\* job in the queue is eventually taken by the worker, the deliveries before
\* it terminating.
C30_QueueNeverStalls ==
   /\ [][(queue' # <<>> /\ running' < concurrency) => immediates' > 0]_vars
   /\ \A id \in Ids : InQueue(queue, id) ~> (cur = id)

\* A delivery is over, its row printed, and the job that waited behind it is
\* about to be taken by the worker step the completion has scheduled.
C30_Witness ==
   /\ ledger[1] = "printed"
   /\ queue # <<>>
   /\ running = 0
   /\ cur = Null
   /\ immediates > 0

\* C31: with concurrency 1 the delivery of the next queued job begins only
\* when no job is in flight: the job before it has gone through all its
\* attempts and backoff delays and its status update has been answered.  A
\* job that is retrying keeps every job behind it in the queue.
C31_RetryingJobBlocksQueue ==
   [][/\ running' > running =>
            /\ running = 0
            /\ cur = Null
            /\ dpc = "idle"
            /\ cur' = Head(queue)
      /\ (cur # Null /\ cur' # cur) =>
            /\ dpc = "writing"
            /\ cur' = Null
      /\ dpc \in {"acquire", "printing", "backoff"} =>
            /\ cur' = cur
            /\ Len(queue') >= Len(queue)]_vars

\* The job in flight waits for its second retry while another job is queued
\* behind it, and the worker step scheduled for that job has run and
\* returned.
C31_Witness ==
   /\ dpc = "backoff"
   /\ retryCount = 1
   /\ running = concurrency
   /\ queue # <<>>
   /\ immediates = 0

====
